---- MODULE Spec2Model ----
(***************************************************************************)
(* VulkanSurfacePool (shell/platform/fuchsia/flutter/vulkan_surface_pool.cc) *)
(*                                                                         *)
(* The pool owns available_surfaces_ (a vector of owned surfaces), and     *)
(* pending_surfaces_ (a map from the surface's key to the owned surface).  *)
(* A surface is a VulkanSurface object: the pool reads its validity, size, *)
(* age, oversize and size-history predicates and never                     *)
(* looks inside it.  Every member function is an operator from the pool's  *)
(* member state (a record named like the members) to the member state      *)
(* after the call and the value returned; what the VulkanSurface           *)
(* constructor and FlushSessionAcquireAndReleaseEvents produce is an       *)
(* input of the operator, chosen by the action.                            *)
(***************************************************************************)
EXTENDS Integers, Sequences, FiniteSets

\* kMaxSurfaces and kMaxSurfaceAge are declared in vulkan_surface_pool.h;
\* the model is parametric in them and takes small values.
kMaxSurfaces == 2
kMaxSurfaceAge == 2
\* At most MaxLive surfaces exist at a time (guard of the actions that
\* construct one more).
MaxLive == 3
\* Distinct SkISize values requested.
NumSizes == 2
\* buffer_id_ is not advanced beyond MaxBufferId (guard of the actions).
MaxBufferId == 3
\* At most MaxInvalid surfaces the pool owns are invalid at a time.
MaxInvalid == 1
\* buffer_id_ is not advanced beyond MaxFairBufferId on the platform with
\* late signals.
MaxFairBufferId == 2

Sizes == 1..NumSizes

VARIABLES
    available_surfaces_,      \* std::vector<std::unique_ptr<VulkanSurface>>
    pending_surfaces_,        \* std::unordered_map<uintptr_t, unique_ptr>
    buffer_id_,               \* next identifier handed to a VulkanSurface
    trace_surfaces_created_,  \* per-period counter
    trace_surfaces_reused_,   \* per-period counter
    held,                     \* surfaces AcquireSurface returned, owned by the caller
    callbacks,                \* closures bound by SubmitSurface: [key, fired]
    platform,                 \* what the collaborators do in this run
    period,                   \* creations and reuses since the last statistics report
    last                      \* the last call: operation, arguments, result, trace events

vars == <<available_surfaces_, pending_surfaces_, buffer_id_,
          trace_surfaces_created_, trace_surfaces_reused_, held, callbacks,
          platform, period, last>>

\* The null unique_ptr.
nullptr == [id |-> -1, size |-> 0, valid |-> FALSE, age |-> 0,
            oversized |-> FALSE, stable |-> FALSE]

\* What constructing a VulkanSurface yields: whether the object IsValid(),
\* IsOversized() and HasStableSizeHistory().  HasStableSizeHistory() is asked
\* of oversized surfaces only and an invalid new surface is discarded
\* unread, so the outcomes that differ only in an answer never asked for are
\* one outcome.
Outcomes ==
    {e \in [valid : BOOLEAN, oversized : BOOLEAN, stable : BOOLEAN] :
        (e.stable => e.oversized) /\ (e.oversized => e.valid)}

\* reinterpret_cast<uintptr_t>(vulkan_surface.get()): the object's address.
\* Two objects alive together have different addresses, and the closure bound
\* to an address is handed to the surface at that address (SignalWritesFinished)
\* and goes when the surface is destroyed, so no address is looked up after
\* its object is gone: the address is named by the object's identifier.
SurfaceKey(surface) == surface.id

\* The pool's members as one record.
This == [available_surfaces_ |-> available_surfaces_,
         pending_surfaces_ |-> pending_surfaces_,
         buffer_id_ |-> buffer_id_,
         trace_surfaces_created_ |-> trace_surfaces_created_,
         trace_surfaces_reused_ |-> trace_surfaces_reused_,
         trace |-> <<>>]

\* vector::erase(it): the sequence without its i-th element.
Erase(seq, i) == [j \in 1..(Len(seq) - 1) |-> IF j < i THEN seq[j] ELSE seq[j + 1]]

\* The indices of seq whose element satisfies a predicate are written
\* {i \in 1..Len(seq) : ...}.
\* std::find_if: the first index among hits (the indices whose element
\* satisfies the predicate), 0 for end().
FindIf(hits) ==
    IF hits # {} THEN CHOOSE i \in hits : \A j \in hits : i <= j ELSE 0

\* std::remove_if + erase, from index i on: the elements whose index is not
\* among hits, order kept.
RECURSIVE RemoveFrom(_, _, _)
RemoveFrom(seq, hits, i) ==
    IF i > Len(seq) THEN <<>>
    ELSE (IF i \in hits THEN <<>> ELSE <<seq[i]>>) \o RemoveFrom(seq, hits, i + 1)
RemoveIf(seq, hits) == RemoveFrom(seq, hits, 1)

\* What TraceStats emits as SurfacePoolCounts.
SurfacePoolCounts(t) ==
    [CachedCount |-> Len(t.available_surfaces_),
     Created |-> t.trace_surfaces_created_,
     Reused |-> t.trace_surfaces_reused_,
     PendingInCompositor |-> Cardinality(DOMAIN t.pending_surfaces_)]

\* The surfaces in a vector of surfaces, named by their identifiers.
Cached(seq) == {seq[i].id : i \in 1..Len(seq)}

\* The trace events of one call, in the order they are emitted (the field
\* trace of the member record): the TRACE_COUNTER of TraceStats, and the
\* TRACE_EVENT2 on entry to CreateSurface together with the surfaces the pool
\* holds at that moment.
CountsEvent(t) == [event |-> "SurfacePoolCounts", counts |-> SurfacePoolCounts(t)]
CreateEvent(t, size) ==
    [event |-> "CreateSurface", size |-> size, cached |-> Cached(t.available_surfaces_)]

\* TraceStats that also throws the invalid surfaces out of the pool.
TraceStats_DropInvalid(t) ==
    [t EXCEPT !.trace_surfaces_created_ = 0, !.trace_surfaces_reused_ = 0,
              !.trace = Append(@, CountsEvent(t)),
              !.available_surfaces_ =
                    RemoveIf(t.available_surfaces_,
                             {i \in 1..Len(t.available_surfaces_) :
                                    ~t.available_surfaces_[i].valid})]

\* TraceStats: emits the counters, then resets the per-period ones.
TraceStats(t) ==
    [t EXCEPT !.trace_surfaces_created_ = 0, !.trace_surfaces_reused_ = 0,
              !.trace = Append(@, CountsEvent(t))]

\* CreateSurface that hands out buffer_id_ without advancing it.
CreateSurface_NoIncrement(t, size, e) ==
    LET surface == [id |-> t.buffer_id_, size |-> size,
                    valid |-> e.valid, age |-> 0,
                    oversized |-> e.oversized, stable |-> e.stable]
        t1 == [t EXCEPT !.trace = Append(@, CreateEvent(t, size))]
    IN  IF ~surface.valid
        THEN [this |-> t1, ret |-> nullptr]
        ELSE [this |-> [t1 EXCEPT !.trace_surfaces_created_ = @ + 1],
              ret |-> surface]

\* CreateSurface that counts a creation before it tests the new surface.
CreateSurface_CountFailed(t, size, e) ==
    LET surface == [id |-> t.buffer_id_, size |-> size,
                    valid |-> e.valid, age |-> 0,
                    oversized |-> e.oversized, stable |-> e.stable]
        t1 == [t EXCEPT !.buffer_id_ = @ + 1,
                        !.trace_surfaces_created_ = @ + 1,
                        !.trace = Append(@, CreateEvent(t, size))]
    IN  IF ~surface.valid
        THEN [this |-> t1, ret |-> nullptr]
        ELSE [this |-> t1, ret |-> surface]

\* CreateSurface(size): make_unique<VulkanSurface>(..., size, buffer_id_++);
\* nullptr when the new surface is not valid.
CreateSurface(t, size, e) ==
    LET surface == [id |-> t.buffer_id_, size |-> size,
                    valid |-> e.valid, age |-> 0,
                    oversized |-> e.oversized, stable |-> e.stable]
        t1 == [t EXCEPT !.buffer_id_ = @ + 1,
                        !.trace = Append(@, CreateEvent(t, size))]
    IN  IF ~surface.valid
        THEN [this |-> t1, ret |-> nullptr]
        ELSE [this |-> [t1 EXCEPT !.trace_surfaces_created_ = @ + 1],
              ret |-> surface]

\* The find_if lambda without the IsValid() test.
ExactMatch_SizeOnly(surface, size) == surface.size = size

\* The lambda of GetCachedOrCreateSurface's find_if.
ExactMatch(surface, size) == surface.valid /\ surface.size = size

\* GetCachedOrCreateSurface that returns the match and leaves it in the pool.
GetCachedOrCreateSurface_NoErase(t, size, e) ==
    LET exact_match_it == FindIf({i \in 1..Len(t.available_surfaces_) :
                                    ExactMatch(t.available_surfaces_[i], size)})
    IN  IF exact_match_it # 0
        THEN [this |-> t, ret |-> t.available_surfaces_[exact_match_it]]
        ELSE CreateSurface(t, size, e)

\* GetCachedOrCreateSurface that takes the last match instead of the first.
GetCachedOrCreateSurface_LastMatch(t, size, e) ==
    LET matches == {i \in 1..Len(t.available_surfaces_) :
                        ExactMatch(t.available_surfaces_[i], size)}
        exact_match_it == CHOOSE i \in matches : \A j \in matches : j <= i
    IN  IF matches # {}
        THEN [this |-> [t EXCEPT !.available_surfaces_ = Erase(@, exact_match_it)],
              ret |-> t.available_surfaces_[exact_match_it]]
        ELSE CreateSurface(t, size, e)

\* GetCachedOrCreateSurface that, finding no match, throws the invalid
\* surfaces of the requested size out of the pool before it creates.
GetCachedOrCreateSurface_DropStale(t, size, e) ==
    LET exact_match_it == FindIf({i \in 1..Len(t.available_surfaces_) :
                                    ExactMatch(t.available_surfaces_[i], size)})
        stale == {i \in 1..Len(t.available_surfaces_) :
                    /\ ~t.available_surfaces_[i].valid
                    /\ t.available_surfaces_[i].size = size}
    IN  IF exact_match_it # 0
        THEN [this |-> [t EXCEPT !.available_surfaces_ = Erase(@, exact_match_it)],
              ret |-> t.available_surfaces_[exact_match_it]]
        ELSE CreateSurface([t EXCEPT !.available_surfaces_ = RemoveIf(@, stale)],
                           size, e)

\* GetCachedOrCreateSurface(size).
GetCachedOrCreateSurface(t, size, e) ==
    LET exact_match_it == FindIf({i \in 1..Len(t.available_surfaces_) :
                                    ExactMatch(t.available_surfaces_[i], size)})
    IN  IF exact_match_it # 0
        THEN [this |-> [t EXCEPT !.available_surfaces_ = Erase(@, exact_match_it)],
              ret |-> t.available_surfaces_[exact_match_it]]
        ELSE CreateSurface(t, size, e)

\* AcquireSurface that puts the surface back into the pool when the flush fails.
AcquireSurface_PutBack(t, size, e, flush) ==
    LET r == GetCachedOrCreateSurface(t, size, e)
    IN  IF r.ret = nullptr THEN r
        ELSE IF ~flush
             THEN [this |-> [r.this EXCEPT !.available_surfaces_ = Append(@, r.ret)],
                   ret |-> nullptr]
        ELSE r

\* AcquireSurface(size); flush is what FlushSessionAcquireAndReleaseEvents
\* returns.
AcquireSurface(t, size, e, flush) ==
    LET r == GetCachedOrCreateSurface(t, size, e)
    IN  IF r.ret = nullptr THEN r
        ELSE IF ~flush THEN [this |-> r.this, ret |-> nullptr]
        ELSE r

\* SubmitSurface that keeps only the surface it is given in the pending map.
SubmitSurface_ForgetOthers(t, cbs, p_surface) ==
    IF p_surface = nullptr THEN [this |-> t, callbacks |-> cbs]
    ELSE LET surface_key == SurfaceKey(p_surface)
         IN  [this |-> [t EXCEPT !.pending_surfaces_ =
                            [k \in {surface_key} |-> p_surface]],
              callbacks |-> cbs \cup {[key |-> surface_key, fired |-> FALSE]}]

\* SubmitSurface(p_surface): the pending map keyed by the object's address;
\* cbs are the closures bound so far.
SubmitSurface(t, cbs, p_surface) ==
    IF p_surface = nullptr THEN [this |-> t, callbacks |-> cbs]
    ELSE LET surface_key == SurfaceKey(p_surface)
         IN  IF surface_key \in DOMAIN t.pending_surfaces_
             THEN [this |-> t, callbacks |-> cbs]
             ELSE [this |-> [t EXCEPT !.pending_surfaces_ =
                                [k \in DOMAIN @ \cup {surface_key} |->
                                    IF k = surface_key THEN p_surface ELSE @[k]]],
                   callbacks |-> cbs \cup {[key |-> surface_key, fired |-> FALSE]}]

\* RecycleSurface without the kMaxSurfaces test.
RecycleSurface_NoCap(t, surface) ==
    IF ~surface.valid THEN t
    ELSE TraceStats([t EXCEPT !.available_surfaces_ = Append(@, surface)])

\* RecycleSurface that makes room by dropping the oldest pooled surface.
RecycleSurface_EvictOldest(t, surface) ==
    IF ~surface.valid THEN t
    ELSE TraceStats(
            IF Len(t.available_surfaces_) < kMaxSurfaces
            THEN [t EXCEPT !.available_surfaces_ = Append(@, surface)]
            ELSE [t EXCEPT !.available_surfaces_ = Append(Tail(@), surface)])

\* RecycleSurface without the IsValid() test.
RecycleSurface_NoValidCheck(t, surface) ==
    TraceStats(
        IF Len(t.available_surfaces_) < kMaxSurfaces
        THEN [t EXCEPT !.available_surfaces_ = Append(@, surface)]
        ELSE t)

\* RecycleSurface(surface).
RecycleSurface(t, surface) ==
    IF ~surface.valid THEN t
    ELSE TraceStats(
            IF Len(t.available_surfaces_) < kMaxSurfaces
            THEN [t EXCEPT !.available_surfaces_ = Append(@, surface)]
            ELSE t)

\* RecyclePendingSurface that recycles the entry and leaves it in the map.
RecyclePendingSurface_NoErase(t, surface_key) ==
    IF surface_key \notin DOMAIN t.pending_surfaces_ THEN t
    ELSE RecycleSurface(t, t.pending_surfaces_[surface_key])

\* RecyclePendingSurface(surface_key).
RecyclePendingSurface(t, surface_key) ==
    IF surface_key \notin DOMAIN t.pending_surfaces_ THEN t
    ELSE LET surface_to_recycle == t.pending_surfaces_[surface_key]
             t1 == [t EXCEPT !.pending_surfaces_ =
                        [k \in DOMAIN @ \ {surface_key} |-> @[k]]]
         IN  RecycleSurface(t1, surface_to_recycle)

\* The remove_if lambda of AgeAndCollectOldBuffers: AdvanceAndGetAge is ++age_
\* and is reached only for a valid surface.
Aged(surface) ==
    IF ~surface.valid THEN surface ELSE [surface EXCEPT !.age = @ + 1]
\* The age test with > for >=.
TooOld_Strict(surface) == ~surface.valid \/ surface.age > kMaxSurfaceAge

TooOld(surface) == ~surface.valid \/ surface.age >= kMaxSurfaceAge

\* available_surfaces_ after the erase(remove_if(...)) of AgeAndCollectOldBuffers.
AgeFilter(seq) ==
    RemoveIf([i \in 1..Len(seq) |-> Aged(seq[i])],
             {i \in 1..Len(seq) : TooOld(Aged(seq[i]))})

\* The find_if lambda of AgeAndCollectOldBuffers.
OversizedAndStable(surface) == surface.oversized /\ surface.stable

\* AgeAndCollectOldBuffers that removes every oversized surface with a stable
\* size history and creates one replacement.
AgeAndCollectOldBuffers_RemoveAll(t, e) ==
    LET t1 == [t EXCEPT !.available_surfaces_ = AgeFilter(@)]
        surface_to_remove_it ==
            FindIf({i \in 1..Len(t1.available_surfaces_) :
                        OversizedAndStable(t1.available_surfaces_[i])})
    IN  IF surface_to_remove_it # 0
        THEN LET size == t1.available_surfaces_[surface_to_remove_it].size
                 t2 == [t1 EXCEPT !.available_surfaces_ =
                            RemoveIf(@, {i \in 1..Len(@) : OversizedAndStable(@[i])})]
                 c == CreateSurface(t2, size, e)
             IN  TraceStats(
                    IF c.ret # nullptr
                    THEN [c.this EXCEPT !.available_surfaces_ = Append(@, c.ret)]
                    ELSE c.this)
        ELSE TraceStats(t1)

\* AgeAndCollectOldBuffers that creates the smaller surface and keeps the
\* oversized one.
AgeAndCollectOldBuffers_KeepOld(t, e) ==
    LET t1 == [t EXCEPT !.available_surfaces_ = AgeFilter(@)]
        surface_to_remove_it ==
            FindIf({i \in 1..Len(t1.available_surfaces_) :
                        OversizedAndStable(t1.available_surfaces_[i])})
    IN  IF surface_to_remove_it # 0
        THEN LET size == t1.available_surfaces_[surface_to_remove_it].size
                 c == CreateSurface(t1, size, e)
             IN  TraceStats(
                    IF c.ret # nullptr
                    THEN [c.this EXCEPT !.available_surfaces_ = Append(@, c.ret)]
                    ELSE c.this)
        ELSE TraceStats(t1)

\* AgeAndCollectOldBuffers().
AgeAndCollectOldBuffers(t, e) ==
    LET t1 == [t EXCEPT !.available_surfaces_ = AgeFilter(@)]
        surface_to_remove_it ==
            FindIf({i \in 1..Len(t1.available_surfaces_) :
                        OversizedAndStable(t1.available_surfaces_[i])})
    IN  IF surface_to_remove_it # 0
        THEN LET size == t1.available_surfaces_[surface_to_remove_it].size
                 t2 == [t1 EXCEPT !.available_surfaces_ = Erase(@, surface_to_remove_it)]
                 c == CreateSurface(t2, size, e)
             IN  TraceStats(
                    IF c.ret # nullptr
                    THEN [c.this EXCEPT !.available_surfaces_ = Append(@, c.ret)]
                    ELSE c.this)
        ELSE TraceStats(t1)

IsOversized(surface) == surface.oversized

\* The second loop of ShrinkToFit, from its i-th iteration on: one
\* CreateSurface per recorded size; es[i] is what the i-th construction yields.
RECURSIVE Recreate(_, _, _, _)
Recreate(t, sizes_to_recreate, es, i) ==
    IF i > Len(sizes_to_recreate) THEN t
    ELSE LET c == CreateSurface(t, sizes_to_recreate[i], es[i])
         IN  Recreate(IF c.ret # nullptr
                      THEN [c.this EXCEPT !.available_surfaces_ = Append(@, c.ret)]
                      ELSE c.this,
                      sizes_to_recreate, es, i + 1)

\* ShrinkToFit that records each size once, however many oversized surfaces
\* have it.
SizesToRecreate_Distinct(seq) ==
    LET recorded == {seq[i].size : i \in {j \in 1..Len(seq) : IsOversized(seq[j])}}
    IN  RemoveIf([size \in 1..NumSizes |-> size],
                 {size \in 1..NumSizes : size \notin recorded})

\* The sizes ShrinkToFit records, in pool order.
SizesToRecreate(seq) ==
    LET over == RemoveIf(seq, {i \in 1..Len(seq) : ~IsOversized(seq[i])})
    IN  [i \in 1..Len(over) |-> over[i].size]

\* The first loop of ShrinkToFit resetting the invalid surfaces too.
WithoutOversized_DropInvalid(seq) ==
    RemoveIf(seq, {i \in 1..Len(seq) : IsOversized(seq[i]) \/ ~seq[i].valid})

\* The pool after the first loop of ShrinkToFit and the erase(remove(nullptr)).
WithoutOversized(seq) == RemoveIf(seq, {i \in 1..Len(seq) : IsOversized(seq[i])})

\* ShrinkToFit that creates the replacements first and destroys the oversized
\* surfaces afterwards.
ShrinkToFit_CreateFirst(t, es) ==
    LET sizes_to_recreate == SizesToRecreate(t.available_surfaces_)
        old == {t.available_surfaces_[i].id :
                    i \in {j \in 1..Len(t.available_surfaces_) :
                                IsOversized(t.available_surfaces_[j])}}
        t1 == Recreate(t, sizes_to_recreate, es, 1)
        pool == t1.available_surfaces_
    IN  TraceStats([t1 EXCEPT !.available_surfaces_ =
                        RemoveIf(pool, {i \in 1..Len(pool) : pool[i].id \in old})])

\* ShrinkToFit().
ShrinkToFit(t, es) ==
    LET sizes_to_recreate == SizesToRecreate(t.available_surfaces_)
        t1 == [t EXCEPT !.available_surfaces_ = WithoutOversized(@)]
    IN  TraceStats(Recreate(t1, sizes_to_recreate, es, 1))

----------------------------------------------------------------------------
\* The surfaces owned by the pool or the caller.
PoolSet(seq) == {seq[i] : i \in 1..Len(seq)}
PendingSet(m) == {m[k] : k \in DOMAIN m}
Live(seq, m, h) == PoolSet(seq) \cup PendingSet(m) \cup h
LiveKeys(seq, m, h) == {SurfaceKey(x) : x \in Live(seq, m, h)}

\* The closures whose surface still exists.
Bound(cbs, seq, m, h) == {cb \in cbs : cb.key \in LiveKeys(seq, m, h)}

\* The collaborators of one run: the sizes the frame loop asks for, what
\* constructing a VulkanSurface can yield, whether a constructed surface can
\* turn invalid later, whether a writes-finished closure can run again
\* after it ran (a duplicate or late signal), and how many surfaces are
\* constructed at most.
Tight == [valid |-> TRUE, oversized |-> FALSE, stable |-> FALSE]
Failed == [valid |-> FALSE, oversized |-> FALSE, stable |-> FALSE]
Oversized == [valid |-> TRUE, oversized |-> TRUE, stable |-> FALSE]
OversizedStable == [valid |-> TRUE, oversized |-> TRUE, stable |-> TRUE]
\* One platform, on which a writes-finished signal can come a second time.
LatePlatform ==
    [sizes |-> {1}, outcomes |-> {Tight}, invalidate |-> TRUE, late |-> TRUE,
     ids |-> MaxFairBufferId]

Platforms ==
    { [sizes |-> Sizes, outcomes |-> {Tight, OversizedStable, Failed},
       invalidate |-> FALSE, late |-> FALSE, ids |-> MaxBufferId],
      [sizes |-> {1}, outcomes |-> {Tight, Oversized, Failed},
       invalidate |-> TRUE, late |-> FALSE, ids |-> MaxBufferId],
      LatePlatform }

\* Whether a call emitted SurfacePoolCounts, and the creations and reuses
\* since the last time one did: a call that emits it does so last.
Counted(trace) == \E i \in 1..Len(trace) : trace[i].event = "SurfacePoolCounts"
NoEvents == [created |-> 0, reused |-> 0]
PeriodAfter(trace, created, reused) ==
    IF Counted(trace) THEN NoEvents
    ELSE [created |-> period.created + created, reused |-> period.reused + reused]

InitOn(p) ==
    /\ platform = p
    /\ available_surfaces_ = <<>>
    /\ pending_surfaces_ = <<>>
    /\ buffer_id_ = 0
    /\ trace_surfaces_created_ = 0
    /\ trace_surfaces_reused_ = 0
    /\ held = {}
    /\ callbacks = {}
    /\ period = NoEvents
    /\ last = [op |-> "VulkanSurfacePool"]

Init == \E p \in Platforms : InitOn(p)

SetThis(t) ==
    /\ available_surfaces_' = t.available_surfaces_
    /\ pending_surfaces_' = t.pending_surfaces_
    /\ buffer_id_' = t.buffer_id_
    /\ trace_surfaces_created_' = t.trace_surfaces_created_
    /\ trace_surfaces_reused_' = t.trace_surfaces_reused_

\* The frame loop calls AcquireSurface(size) and keeps what it returns.
Acquire ==
    \E size \in platform.sizes, e \in platform.outcomes, flush \in BOOLEAN :
        LET hit == \E i \in 1..Len(available_surfaces_) :
                       ExactMatch(available_surfaces_[i], size)
            got == GetCachedOrCreateSurface(This, size, e).ret
            r == AcquireSurface(This, size, e, flush)
        IN  /\ hit \/ ( /\ buffer_id_ < platform.ids
                        /\ Cardinality(Live(available_surfaces_,
                                            pending_surfaces_, held)) < MaxLive )
            /\ SetThis(r.this)
            /\ held' = IF r.ret # nullptr THEN held \cup {r.ret} ELSE held
            /\ callbacks' = Bound(callbacks, r.this.available_surfaces_,
                                  r.this.pending_surfaces_, held')
            /\ platform' = platform
            /\ period' = PeriodAfter(r.this.trace,
                                     IF ~hit /\ got # nullptr THEN 1 ELSE 0,
                                     IF hit /\ r.ret # nullptr THEN 1 ELSE 0)
            /\ last' = [op |-> "AcquireSurface", size |-> size, hit |-> hit,
                        ret |-> r.ret,
                        got |-> got,
                        flush |-> IF got = nullptr THEN "not called"
                                  ELSE IF flush THEN "done" ELSE "failed",
                        trace |-> r.this.trace]

\* The frame loop hands a surface it holds (or a null handle) to SubmitSurface.
Submit ==
    \E p_surface \in held \cup {nullptr} :
        LET r == SubmitSurface(This, callbacks, p_surface)
        IN  /\ SetThis(r.this)
            /\ held' = held \ {p_surface}
            /\ callbacks' = r.callbacks
            /\ platform' = platform
            /\ period' = PeriodAfter(r.this.trace, 0, 0)
            /\ last' = [op |-> "SubmitSurface", key |-> SurfaceKey(p_surface),
                        trace |-> r.this.trace]

\* A bound closure RecyclePendingSurface(this, surface_key) is invoked: the
\* writes-finished signal, or a duplicate or late one.  The closure that ran
\* is gone, or (on a platform with late signals) stays to run once more.
Completion ==
    \E cb \in callbacks :
        LET t == RecyclePendingSurface(This, cb.key)
            was_pending == cb.key \in DOMAIN pending_surfaces_
            ran == [cb EXCEPT !.fired = TRUE]
            rest == callbacks \ {cb}
        IN  /\ SetThis(t)
            /\ held' = held
            /\ callbacks' = Bound(IF platform.late THEN rest \cup {ran} ELSE rest,
                                  t.available_surfaces_, t.pending_surfaces_, held)
            /\ platform' = platform
            /\ period' = PeriodAfter(t.trace, 0, 0)
            /\ last' = [op |-> "RecyclePendingSurface", key |-> cb.key,
                        fired |-> cb.fired,
                        surface |-> IF was_pending THEN pending_surfaces_[cb.key]
                                    ELSE nullptr,
                        trace |-> t.trace]

\* The frame loop calls AgeAndCollectOldBuffers().
AgeAndCollect ==
    \E e \in platform.outcomes :
        LET survivors == AgeFilter(available_surfaces_)
            it == FindIf({i \in 1..Len(survivors) : OversizedAndStable(survivors[i])})
            t == AgeAndCollectOldBuffers(This, e)
        IN  /\ it # 0 => buffer_id_ < platform.ids
            /\ SetThis(t)
            /\ held' = held
            /\ callbacks' = Bound(callbacks, t.available_surfaces_,
                                  t.pending_surfaces_, held)
            /\ platform' = platform
            /\ period' = PeriodAfter(t.trace, 0, 0)
            /\ last' = [op |-> "AgeAndCollectOldBuffers",
                        replaced |-> IF it # 0 THEN survivors[it] ELSE nullptr,
                        trace |-> t.trace]

\* The frame loop calls ShrinkToFit().
Shrink ==
    LET kept == WithoutOversized(available_surfaces_)
        n == Len(available_surfaces_) - Len(kept)
    IN  \E es \in [1..n -> platform.outcomes] :
            LET t == ShrinkToFit(This, es)
            IN  /\ n > 0 => buffer_id_ < platform.ids
                /\ SetThis(t)
                /\ held' = held
                /\ callbacks' = Bound(callbacks, t.available_surfaces_,
                                      t.pending_surfaces_, held)
                /\ platform' = platform
                /\ period' = PeriodAfter(t.trace, 0, 0)
                /\ last' = [op |-> "ShrinkToFit", n |-> n,
                            failed |-> Cardinality({i \in 1..n : ~es[i].valid}),
                            trace |-> t.trace]

\* A statistics report on its own.
Report ==
    /\ SetThis(TraceStats(This))
    /\ UNCHANGED <<held, callbacks, platform>>
    /\ period' = PeriodAfter(TraceStats(This).trace, 0, 0)
    /\ last' = [op |-> "TraceStats", counts |-> SurfacePoolCounts(This),
                trace |-> TraceStats(This).trace]

\* A surface the pool owns becomes invalid (IsValid() turns false).  The pool
\* reads IsValid() of the surfaces it owns only, and SubmitSurface does not
\* read it: a surface that turns invalid in the caller's hands is one that
\* turns invalid right after it is submitted.
Invalidated(surface, key) ==
    IF SurfaceKey(surface) = key THEN [surface EXCEPT !.valid = FALSE] ELSE surface
Invalidate ==
    \E s \in PoolSet(available_surfaces_) \cup PendingSet(pending_surfaces_) :
        /\ platform.invalidate
        /\ s.valid
        /\ Cardinality({x \in PoolSet(available_surfaces_)
                                \cup PendingSet(pending_surfaces_) : ~x.valid}) < MaxInvalid
        /\ available_surfaces_' = [i \in 1..Len(available_surfaces_) |->
                                      Invalidated(available_surfaces_[i], SurfaceKey(s))]
        /\ pending_surfaces_' = [k \in DOMAIN pending_surfaces_ |->
                                    Invalidated(pending_surfaces_[k], SurfaceKey(s))]
        /\ UNCHANGED <<held, buffer_id_, trace_surfaces_created_, trace_surfaces_reused_,
                       callbacks, platform, period>>
        /\ last' = [op |-> "Invalidate", key |-> SurfaceKey(s), trace |-> <<>>]

Next ==
    \/ Acquire
    \/ Submit
    \/ Completion
    \/ AgeAndCollect
    \/ Shrink
    \/ Report
    \/ Invalidate

Spec == Init /\ [][Next]_vars

\* The keys a surface can have in a run of FairSpec.
Keys == 0..(MaxFairBufferId - 1)

\* The closure SubmitSurface bound to surface_key is invoked.
CompletionOf(surface_key) == Completion /\ last'.key = surface_key

\* The runs on the platform with late signals in which every writes-finished signal that is
\* due is delivered: a closure that stays bound is eventually invoked.
FairSpec ==
    /\ InitOn(LatePlatform)
    /\ [][Next]_vars
    /\ \A surface_key \in Keys : WF_vars(CompletionOf(surface_key))

----------------------------------------------------------------------------
\* What the properties below speak of.
Pool == available_surfaces_
PoolIds == {Pool[i].id : i \in 1..Len(Pool)}
PendingIds == {pending_surfaces_[k].id : k \in DOMAIN pending_surfaces_}
HeldIds == {s.id : s \in held}
LiveIds == PoolIds \cup PendingIds \cup HeldIds
NumLive == Len(Pool) + Cardinality(DOMAIN pending_surfaces_) + Cardinality(held)

\* C1: in every reachable state the Available Pool holds at most kMaxSurfaces
\* surfaces.
C1_PoolWithinCapacity == Len(available_surfaces_) <= kMaxSurfaces

\* C1 witness: a completion callback found a valid surface and a full pool,
\* and the surface was dropped.
C1_Witness ==
    /\ last.op = "RecyclePendingSurface"
    /\ last.surface # nullptr
    /\ last.surface.valid
    /\ Len(available_surfaces_) = kMaxSurfaces
    /\ last.surface.id \notin PoolIds

\* C2: the surface AcquireSurface returns is valid when it is returned, on the
\* reuse path and on the create path.
C2_AcquiredIsValid ==
    (last.op = "AcquireSurface" /\ last.ret # nullptr) => last.ret.valid

\* C2 witness: AcquireSurface reused a pooled surface while an invalid surface
\* of the requested size sat in the pool (and still does).
C2_Witness ==
    /\ last.op = "AcquireSurface"
    /\ last.hit
    /\ last.ret # nullptr
    /\ \E i \in 1..Len(Pool) : ~Pool[i].valid /\ Pool[i].size = last.size

\* C3: no surface is in two of the Available Pool, the Pending Set and the
\* caller's hands, and none is in the Available Pool twice.
C3_OneOwner ==
    /\ \A i, j \in 1..Len(Pool) :
          SurfaceKey(Pool[i]) = SurfaceKey(Pool[j]) => i = j
    /\ \A i \in 1..Len(Pool) :
          /\ SurfaceKey(Pool[i]) \notin DOMAIN pending_surfaces_
          /\ \A s \in held : SurfaceKey(s) # SurfaceKey(Pool[i])
    /\ \A s \in held : SurfaceKey(s) \notin DOMAIN pending_surfaces_
    /\ \A k \in DOMAIN pending_surfaces_ : SurfaceKey(pending_surfaces_[k]) = k
    /\ \A s, x \in held : SurfaceKey(s) = SurfaceKey(x) => s = x

\* C3 witness: after a reuse from the pool, the pool, the Pending Set and the
\* caller each own a surface.
C3_Witness ==
    /\ last.op = "AcquireSurface"
    /\ last.hit
    /\ last.ret \in held
    /\ Len(Pool) > 0
    /\ DOMAIN pending_surfaces_ # {}

\* C4: identifiers are unique and increase in creation order: a step never
\* lowers buffer_id_, every surface that appears in a step carries an
\* identifier at or above the old buffer_id_ and below the new one, no two
\* surfaces that exist together share an identifier, and no existing surface
\* carries an identifier that is still to be handed out.
C4_IdentifiersIncrease ==
    [][ /\ buffer_id_' >= buffer_id_
        /\ \A id \in LiveIds' \ LiveIds : buffer_id_ <= id /\ id < buffer_id_'
        /\ Cardinality(LiveIds') = NumLive'
        /\ \A id \in LiveIds' : id < buffer_id_' ]_vars

\* C4 witness: a create succeeded after an earlier identifier was used up by
\* a failed create or a destroyed surface.
C4_Witness ==
    /\ last.op = "AcquireSurface"
    /\ ~last.hit
    /\ last.ret # nullptr
    /\ last.ret.id = buffer_id_ - 1
    /\ \E id \in 0..(buffer_id_ - 2) : id \notin LiveIds

\* C5: when the pool holds a valid surface of the requested size, AcquireSurface
\* takes the first such surface in pool order, creates nothing, removes exactly
\* that entry and leaves the others in their order.
C5_FirstMatchReused ==
    [][ \A i \in 1..Len(Pool) :
          ( /\ last'.op = "AcquireSurface"
            /\ Pool[i].valid /\ Pool[i].size = last'.size
            /\ \A j \in 1..(i - 1) : ~(Pool[j].valid /\ Pool[j].size = last'.size) )
          => /\ buffer_id_' = buffer_id_
             /\ last'.ret \in {Pool[i], nullptr}
             /\ Len(Pool') = Len(Pool) - 1
             /\ \A j \in 1..(i - 1) : Pool'[j] = Pool[j]
             /\ \A j \in i..(Len(Pool) - 1) : Pool'[j] = Pool[j + 1]
             /\ pending_surfaces_' = pending_surfaces_ ]_vars

\* C5 witness: AcquireSurface returned a pooled surface and another valid
\* surface of the same size, which came after it, is still in the pool.
C5_Witness ==
    /\ last.op = "AcquireSurface"
    /\ last.hit
    /\ last.ret \in held
    /\ \E i \in 1..Len(Pool) : Pool[i].valid /\ Pool[i].size = last.size

\* C6: when the pool holds no valid surface of the requested size,
\* AcquireSurface calls CreateSurface exactly once (buffer_id_ advances by one,
\* and a surface returned is the new one, of the requested size) and leaves the
\* pool and the Pending Set as they were, whether or not the creation succeeds.
C6_NoMatchCreatesOnce ==
    [][ ( /\ last'.op = "AcquireSurface"
          /\ \A i \in 1..Len(Pool) :
                ~(Pool[i].valid /\ Pool[i].size = last'.size) )
        => /\ buffer_id_' = buffer_id_ + 1
           /\ last'.ret # nullptr =>
                 (last'.ret.id = buffer_id_ /\ last'.ret.size = last'.size)
           /\ available_surfaces_' = available_surfaces_
           /\ pending_surfaces_' = pending_surfaces_ ]_vars

\* C6 witness: AcquireSurface found no match and its creation failed, while the
\* pool holds an invalid surface of the requested size and the Pending Set is
\* not empty.
C6_Witness ==
    /\ last.op = "AcquireSurface"
    /\ ~last.hit
    /\ last.ret = nullptr
    /\ \E i \in 1..Len(Pool) : ~Pool[i].valid /\ Pool[i].size = last.size
    /\ DOMAIN pending_surfaces_ # {}

\* C7: a completion callback that recycles a valid surface leaves a pool of
\* kMaxSurfaces entries as it is and the surface is destroyed; with fewer entries
\* the surface is appended at the end.
C7_RecycleAtCapacity ==
    [][ \A k \in DOMAIN pending_surfaces_ :
          ( /\ last'.op = "RecyclePendingSurface"
            /\ last'.key = k
            /\ pending_surfaces_[k].valid )
          => IF Len(Pool) >= kMaxSurfaces
             THEN /\ Pool' = Pool
                  /\ pending_surfaces_[k].id \notin LiveIds'
             ELSE Pool' = Append(Pool, pending_surfaces_[k]) ]_vars

\* C7 witness: a valid surface was recycled into a full pool and dropped.
C7_Witness ==
    /\ last.op = "RecyclePendingSurface"
    /\ last.surface # nullptr
    /\ last.surface.valid
    /\ Len(Pool) = kMaxSurfaces
    /\ last.surface.id \notin LiveIds
    /\ \A i \in 1..Len(Pool) : Pool[i].id < last.surface.id

\* C8, as claimed: the first invocation of a submitted surface's completion
\* callback removes the surface from the Pending Set, and an invocation of a
\* callback that has already run changes neither the Pending Set nor the pool,
\* whatever happened in between.
C8_SecondInvocationNoOp ==
    [][ last'.op = "RecyclePendingSurface" =>
          IF last'.fired
          THEN /\ pending_surfaces_' = pending_surfaces_
               /\ available_surfaces_' = available_surfaces_
          ELSE last'.key \notin DOMAIN pending_surfaces_' ]_vars

\* C8, amended: an invocation that finds the surface in the Pending Set removes
\* exactly that entry and recycles it (appended to the pool when valid and
\* there is room, destroyed otherwise); an invocation that does not find it
\* there (the second one, the surface not submitted again since) changes
\* nothing of the pool's state.
C8_CompletionNoOpWhileAbsent ==
    [][ last'.op = "RecyclePendingSurface" =>
          IF last'.key \in DOMAIN pending_surfaces_
          THEN LET surface == pending_surfaces_[last'.key]
               IN  /\ DOMAIN pending_surfaces_' = DOMAIN pending_surfaces_ \ {last'.key}
                   /\ \A k \in DOMAIN pending_surfaces_' :
                         pending_surfaces_'[k] = pending_surfaces_[k]
                   /\ Pool' = IF surface.valid /\ Len(Pool) < kMaxSurfaces
                              THEN Append(Pool, surface) ELSE Pool
          ELSE /\ pending_surfaces_' = pending_surfaces_
               /\ available_surfaces_' = available_surfaces_
               /\ trace_surfaces_created_' = trace_surfaces_created_
               /\ buffer_id_' = buffer_id_ ]_vars

\* C8 witness: a callback that had already run was invoked again and found its
\* surface, recycled by the first invocation and now in the pool, not pending.
C8_Witness ==
    /\ last.op = "RecyclePendingSurface"
    /\ last.fired
    /\ last.surface = nullptr
    /\ last.key \in PoolIds

\* Whether the i-th pooled surface passes the age and validity filter of an
\* AgeAndCollectOldBuffers call that starts now, and whether it is the one the
\* call replaces: the first that passes, is oversized and has a stable size
\* history.
Passes(i) == Pool[i].valid /\ Pool[i].age + 1 < kMaxSurfaceAge
Qualifies(i) == Passes(i) /\ Pool[i].oversized /\ Pool[i].stable
FirstQualifying(i) == Qualifies(i) /\ \A j \in 1..(i - 1) : ~Qualifies(j)

\* C9, as claimed: after AgeAndCollectOldBuffers a pooled surface whose
\* advanced age reaches kMaxSurfaceAge is gone, and a valid one whose advanced
\* age is below it is still pooled, one unit older.
C9_YoungSurfacesRetained ==
    [][ last'.op = "AgeAndCollectOldBuffers" =>
          \A i \in 1..Len(Pool) :
             IF Pool[i].age + 1 >= kMaxSurfaceAge
             THEN Pool[i].id \notin PoolIds'
             ELSE Pool[i].valid =>
                    \E j \in 1..Len(Pool') : Pool'[j] = [Pool[i] EXCEPT !.age = @ + 1] ]_vars

\* C9, amended: as claimed, except that the first surface that passes the
\* filter, is oversized and has a stable size history is removed from the pool
\* too (it is the one the call replaces).
C9_YoungSurfacesRetainedUnlessReplaced ==
    [][ last'.op = "AgeAndCollectOldBuffers" =>
          \A i \in 1..Len(Pool) :
             IF Pool[i].age + 1 >= kMaxSurfaceAge \/ FirstQualifying(i)
             THEN Pool[i].id \notin PoolIds'
             ELSE Pool[i].valid =>
                    \E j \in 1..Len(Pool') : Pool'[j] = [Pool[i] EXCEPT !.age = @ + 1] ]_vars

\* C9 witness: AgeAndCollectOldBuffers replaced a young oversized surface and
\* kept another surface, now one unit older.
C9_Witness ==
    /\ last.op = "AgeAndCollectOldBuffers"
    /\ last.replaced # nullptr
    /\ last.replaced.id \notin PoolIds
    /\ \E i \in 1..Len(Pool) : Pool[i].age >= 1

\* C10: one AgeAndCollectOldBuffers call calls CreateSurface once when a
\* surface qualifies and not at all otherwise; of the surfaces that pass the
\* filter it removes the first qualifying one and no other; a surface it adds
\* has the removed surface's size.
C10_AtMostOneReplaced ==
    [][ last'.op = "AgeAndCollectOldBuffers" =>
          LET qualifying == {i \in 1..Len(Pool) : Qualifies(i)}
              added == {j \in 1..Len(Pool') : Pool'[j].id \notin PoolIds}
          IN  /\ buffer_id_' = buffer_id_ + (IF qualifying = {} THEN 0 ELSE 1)
              /\ \A i \in 1..Len(Pool) :
                    Passes(i) => (Pool[i].id \notin PoolIds' <=> FirstQualifying(i))
              /\ Cardinality(added) <= 1
              /\ \A j \in added : \E i \in qualifying :
                    FirstQualifying(i) /\ Pool'[j].size = Pool[i].size ]_vars

\* C10 witness: AgeAndCollectOldBuffers replaced one oversized surface with a
\* stable size history while a second such surface, which passed the filter
\* with it, stays in the pool.
C10_Witness ==
    /\ last.op = "AgeAndCollectOldBuffers"
    /\ last.replaced # nullptr
    /\ \E i \in 1..Len(Pool) :
          Pool[i].oversized /\ Pool[i].stable /\ Pool[i].age >= 1

\* How many surfaces of a size a vector of surfaces holds.
SizeCount(seq, size) == Cardinality({i \in 1..Len(seq) : seq[i].size = size})

\* C11: after ShrinkToFit none of the surfaces that were oversized in the pool
\* remains in it; the pool is smaller by the number of replacements whose
\* creation failed, and when none failed it holds as many surfaces of each
\* size as before.
C11_ShrinkReplacesOversized ==
    [][ last'.op = "ShrinkToFit" =>
          /\ \A i \in 1..Len(Pool) : Pool[i].oversized => Pool[i].id \notin PoolIds'
          /\ Len(Pool') = Len(Pool) - last'.failed
          /\ \A size \in Sizes : SizeCount(Pool', size) <= SizeCount(Pool, size)
          /\ last'.failed = 0 =>
                \A size \in Sizes : SizeCount(Pool', size) = SizeCount(Pool, size) ]_vars

\* C11 witness: ShrinkToFit destroyed two oversized surfaces, one replacement
\* was created and the other creation failed.
C11_Witness ==
    /\ last.op = "ShrinkToFit"
    /\ last.n = 2
    /\ last.failed = 1
    /\ Len(Pool) = 1
    /\ Pool[1].id >= buffer_id_ - 2

\* C12: when FlushSessionAcquireAndReleaseEvents fails, AcquireSurface returns
\* nullptr and the surface it had obtained is destroyed: it is not in the pool,
\* not pending and not held; on the reuse path the pool has lost that one
\* entry, on the create path the pool is as before.
C12_FlushFailureDiscards ==
    [][ (last'.op = "AcquireSurface" /\ last'.flush = "failed") =>
          /\ last'.ret = nullptr
          /\ last'.got # nullptr
          /\ last'.got.id \notin LiveIds'
          /\ IF last'.hit
             THEN /\ last'.got.id \in PoolIds
                  /\ Len(Pool') = Len(Pool) - 1
                  /\ PoolIds' = PoolIds \ {last'.got.id}
             ELSE /\ last'.got.id = buffer_id_
                  /\ Pool' = Pool
          /\ pending_surfaces_' = pending_surfaces_
          /\ held' = held ]_vars

\* C12 witness: a surface reused from a pool of two was discarded by a failed
\* flush; the other is still pooled and the caller holds nothing.
C12_Witness ==
    /\ last.op = "AcquireSurface"
    /\ last.hit
    /\ last.flush = "failed"
    /\ last.got.id \notin LiveIds
    /\ Len(Pool) = kMaxSurfaces - 1
    /\ held = {}

\* C13: a completion callback that finds its surface pending and invalid
\* removes it from the Pending Set and destroys it; the pool is unchanged
\* whatever its length, nothing is emitted and the counters are untouched.
C13_InvalidRecycleDropped ==
    [][ \A k \in DOMAIN pending_surfaces_ :
          ( /\ last'.op = "RecyclePendingSurface"
            /\ last'.key = k
            /\ ~pending_surfaces_[k].valid )
          => /\ DOMAIN pending_surfaces_' = DOMAIN pending_surfaces_ \ {k}
             /\ pending_surfaces_[k].id \notin LiveIds'
             /\ Pool' = Pool
             /\ last'.trace = <<>>
             /\ trace_surfaces_created_' = trace_surfaces_created_
             /\ buffer_id_' = buffer_id_ ]_vars

\* C13 witness: an invalid surface was recycled while the pool had room, and
\* was destroyed instead of pooled.
C13_Witness ==
    /\ last.op = "RecyclePendingSurface"
    /\ last.surface # nullptr
    /\ ~last.surface.valid
    /\ Len(Pool) = kMaxSurfaces - 1
    /\ Pool[1].valid
    /\ last.surface.id \notin LiveIds

\* C14, as claimed: every SurfacePoolCounts a call emits gives as Created the
\* number of successful creations since the previous one (those of the
\* emitting call included: it emits after it creates), and as Reused the
\* number of AcquireSurface calls served from the pool since the previous one.
C14_ReportCountsCreatedAndReused ==
    [][ \A i \in 1..Len(last'.trace) :
          last'.trace[i].event = "SurfacePoolCounts" =>
             /\ last'.trace[i].counts.Created =
                    period.created + Cardinality(LiveIds' \ LiveIds)
             /\ last'.trace[i].counts.Reused = period.reused ]_vars

\* Whether the step creates a surface successfully (the surface may be
\* discarded by a failed flush in the same call), and whether it reuses one.
CreatesInStep ==
    \/ last'.op = "AcquireSurface" /\ ~last'.hit /\ last'.got # nullptr
    \/ LiveIds' \ LiveIds # {}
ReusesInStep == last'.op = "AcquireSurface" /\ last'.hit

\* C15: after a call that emitted SurfacePoolCounts both counters are zero, and
\* counters that are zero stay zero across every step that neither creates a
\* surface successfully nor reuses one.
C15_CountersZeroUntilEvent ==
    [][ /\ Counted(last'.trace) =>
              (trace_surfaces_created_' = 0 /\ trace_surfaces_reused_' = 0)
        /\ ( /\ trace_surfaces_created_ = 0
             /\ trace_surfaces_reused_ = 0
             /\ ~CreatesInStep
             /\ ~ReusesInStep )
           => (trace_surfaces_created_' = 0 /\ trace_surfaces_reused_' = 0) ]_vars

\* C15 witness: after a report (a surface has been recycled into the pool) a
\* creation failed and the counters still read zero.
C15_Witness ==
    /\ last.op = "AcquireSurface"
    /\ ~last.hit
    /\ last.got = nullptr
    /\ Len(last.trace) = 1
    /\ Len(Pool) > 0
    /\ trace_surfaces_created_ = 0
    /\ trace_surfaces_reused_ = 0

\* C16: a pending surface leaves the Pending Set only in the step in which its
\* own completion callback runs, and enters it only in the SubmitSurface call
\* that is given it; until then the entry is the same surface under the same
\* key.  When every bound callback is eventually invoked, every pending
\* surface eventually leaves the Pending Set.
C16_PendingUntilCompletion ==
    /\ [][ /\ \A k \in DOMAIN pending_surfaces_ :
                IF k \in DOMAIN pending_surfaces_'
                THEN pending_surfaces_'[k].id = pending_surfaces_[k].id
                ELSE last'.op = "RecyclePendingSurface" /\ last'.key = k
           /\ \A k \in DOMAIN pending_surfaces_' \ DOMAIN pending_surfaces_ :
                last'.op = "SubmitSurface" /\ last'.key = k /\ k \in Keys ]_vars
    /\ \A k \in Keys :
          (k \in DOMAIN pending_surfaces_) ~> (k \notin DOMAIN pending_surfaces_)

\* C16 witness: a completion callback took its surface out of the Pending Set
\* while another surface, submitted too, is still pending.
C16_Witness ==
    /\ last.op = "RecyclePendingSurface"
    /\ last.surface # nullptr
    /\ last.key \notin DOMAIN pending_surfaces_
    /\ DOMAIN pending_surfaces_ # {}

\* C17: the number of live surfaces (pooled, pending or held) grows only in an
\* AcquireSurface call that creates a surface and returns it, and then by one;
\* SubmitSurface, a completion callback and a report never raise it, and
\* AgeAndCollectOldBuffers and ShrinkToFit never leave the pool longer than
\* they found it.
C17_OnlyCreateGrows ==
    [][ /\ NumLive' > NumLive =>
              /\ last'.op = "AcquireSurface"
              /\ ~last'.hit
              /\ last'.ret # nullptr
              /\ last'.ret.id = buffer_id_
              /\ NumLive' = NumLive + 1
        /\ last'.op \in {"SubmitSurface", "RecyclePendingSurface", "TraceStats"} =>
              NumLive' <= NumLive
        /\ last'.op \in {"AgeAndCollectOldBuffers", "ShrinkToFit"} =>
              /\ Len(Pool') <= Len(Pool)
              /\ NumLive' <= NumLive ]_vars

\* C17 witness: AgeAndCollectOldBuffers replaced a surface of a full pool, and
\* the pool, with the new surface at its end, is as long as before.
C17_Witness ==
    /\ last.op = "AgeAndCollectOldBuffers"
    /\ last.replaced # nullptr
    /\ Len(Pool) = kMaxSurfaces
    /\ Pool[Len(Pool)].id = buffer_id_ - 1
    /\ last.replaced.id \notin LiveIds

\* C18: whenever CreateSurface is entered within a ShrinkToFit call, none of
\* the surfaces that were oversized in the pool at the start of the call is in
\* the pool any more, and the call enters CreateSurface once per such surface;
\* whenever it is entered within AgeAndCollectOldBuffers, the surface being
\* replaced is not in the pool any more.
C18_DestroyedBeforeReplaced ==
    [][ LET creations == {i \in 1..Len(last'.trace) :
                              last'.trace[i].event = "CreateSurface"}
        IN  /\ last'.op = "ShrinkToFit" =>
                  /\ Cardinality(creations) = last'.n
                  /\ \A i \in creations : \A j \in 1..Len(Pool) :
                        Pool[j].oversized => Pool[j].id \notin last'.trace[i].cached
            /\ last'.op = "AgeAndCollectOldBuffers" =>
                  /\ Cardinality(creations) = IF last'.replaced = nullptr THEN 0 ELSE 1
                  /\ \A i \in creations :
                        last'.replaced.id \notin last'.trace[i].cached ]_vars

\* C18 witness: ShrinkToFit replaced two oversized surfaces, and the first
\* replacement was in the pool when the second was created.
C18_Witness ==
    /\ last.op = "ShrinkToFit"
    /\ last.n = 2
    /\ last.failed = 0
    /\ \E i \in 1..Len(last.trace) :
          /\ last.trace[i].event = "CreateSurface"
          /\ last.trace[i].cached = {buffer_id_ - 2}

\* C19: a TraceStats call leaves the pool (its surfaces, their order, ages and
\* validity), the Pending Set, the surfaces the caller holds and buffer_id_
\* as they are and sets both counters to zero, on its own and at any state
\* at which another call may reach it.
C19_ReportOnlyResetsCounters ==
    [][ /\ TraceStats(This).available_surfaces_ = available_surfaces_
        /\ TraceStats(This).pending_surfaces_ = pending_surfaces_
        /\ TraceStats(This).buffer_id_ = buffer_id_
        /\ last'.op = "TraceStats" =>
              /\ available_surfaces_' = available_surfaces_
              /\ pending_surfaces_' = pending_surfaces_
              /\ buffer_id_' = buffer_id_
              /\ held' = held
              /\ trace_surfaces_created_' = 0
              /\ trace_surfaces_reused_' = 0 ]_vars

\* C19 witness: a report was made with a creation counted, while the pool
\* holds an invalid surface and a surface is pending.
C19_Witness ==
    /\ last.op = "TraceStats"
    /\ last.counts.Created > 0
    /\ trace_surfaces_created_ = 0
    /\ \E i \in 1..Len(Pool) : ~Pool[i].valid
    /\ DOMAIN pending_surfaces_ # {}

\* C20: ShrinkToFit keeps every pooled surface that is not oversized, valid or
\* not, as it is (the k-th of them is the k-th surface of the pool afterwards),
\* every surface after them is one the call created, and the Pending Set is
\* unchanged.
C20_ShrinkKeepsOthers ==
    [][ last'.op = "ShrinkToFit" =>
          LET kept == {i \in 1..Len(Pool) : ~Pool[i].oversized}
          IN  /\ Len(Pool') >= Cardinality(kept)
              /\ \A i \in kept :
                    Pool'[Cardinality({j \in kept : j <= i})] = Pool[i]
              /\ \A j \in (Cardinality(kept) + 1)..Len(Pool') :
                    /\ Pool'[j].id >= buffer_id_
                    /\ Pool'[j].age = 0
              /\ pending_surfaces_' = pending_surfaces_ ]_vars

\* C20 witness: ShrinkToFit replaced an oversized surface and left an invalid
\* surface that is not oversized in front of the replacement.
C20_Witness ==
    /\ last.op = "ShrinkToFit"
    /\ last.n = 1
    /\ Len(Pool) = 2
    /\ ~Pool[1].valid
    /\ ~Pool[1].oversized
    /\ Pool[2].id = buffer_id_ - 1

====
